---- MODULE Spec2Model ----
(***************************************************************************)
(* A model of src/agent/investigator.py: InvestigativeAgent.process_batch  *)
(* and the coroutines it awaits (fetch_pdf, analyze_document,              *)
(* find_connections, generate_report).                                     *)
(*                                                                         *)
(* The coroutine runs on one asyncio task.  Every `await` of an external   *)
(* collaborator (aiohttp GET, body read, the three LLM chains, the         *)
(* conversational agent) is a suspension point: the model has one action   *)
(* that runs the code up to the await and issues the call, and one action  *)
(* per way the call can come back (a value or an exception).  What the     *)
(* collaborators answer is an input of the model, drawn with \E.           *)
(***************************************************************************)
EXTENDS Integers, Sequences, FiniteSets, TLC

(* ------------------------------ bounds --------------------------------- *)

\* longest pdf_urls list handed to process_batch
MaxLen == 4

\* number of process_batch calls made on one InvestigativeAgent
MaxRuns == 2

(* ------------------------- program constants --------------------------- *)

\* range(0, len(pdf_urls), 3) and pdf_urls[i:i+3]
BatchSize == 3

\* if response.status != 200
HTTP_OK == 200

\* the value returned when no batch produced a finding
ErrorMarker == [error |-> "No documents were successfully processed"]

(* ------------------------------ inputs --------------------------------- *)

\* the URL strings; a list may repeat one
Urls == {"u1", "u2"}

\* HTTP statuses a server may answer with: 200, other 2xx, and non-2xx
Statuses == {200, 204, 299, 300, 404}

\* what the body of a 200 response may be
Bodies == {"pdf", "corrupt"}

RECURSIVE SeqsUpTo(_, _)
SeqsUpTo(S, n) ==
  IF n = 0 THEN {<< >>}
  ELSE LET shorter == SeqsUpTo(S, n - 1)
       IN  shorter \cup {Append(s, x) : s \in {t \in shorter : Len(t) = n - 1}, x \in S}

\* every list a caller may pass as pdf_urls
UrlLists == SeqsUpTo(Urls, MaxLen)

(* ------------------------- pure helper functions ----------------------- *)

Min(a, b) == IF a <= b THEN a ELSE b

\* a slice that stops one element early
Slice_short(s, lo, hi) == SubSeq(s, lo + 1, Min(hi - 1, Len(s)))

\* Python's s[lo:hi] for 0 <= lo <= hi (0-based, hi exclusive, clipped)
Slice(s, lo, hi) == SubSeq(s, lo + 1, Min(hi, Len(s)))

\* sep.join(parts): the parts with sep between neighbours, as a token list
RECURSIVE Join(_, _)
Join(sep, parts) ==
  IF parts = << >> THEN << >>
  ELSE IF Len(parts) = 1 THEN <<parts[1]>>
  ELSE <<parts[1], sep>> \o Join(sep, Tail(parts))

\* PyPDF2: the pages' text, concatenated
ExtractText(u) == <<"text", u>>

\* document_chain.arun(document=t)
DocumentChain(t) == <<"document_analysis", t>>

\* analysis_chain.arun(analysis=a)
AnalysisChain(a) == <<"key_findings", a>>

\* the prompt find_connections sends to the agent
ConnectionsPrompt(documents) ==
  <<"Analyze these documents and identify connections">> \o Join("\n\n", documents)

\* agent.arun(prompt).  The agent's three tools wrap the coroutine methods
\* as plain functions (func=), so a tool the agent picks yields an
\* un-awaited coroutine, or makes the agent's run raise: the bodies of
\* analyze_document, find_connections and generate_report never run from
\* inside the agent.  Its run is one external call that returns or raises.
AgentReply(prompt) == <<"connections", prompt>>

\* the input generate_report gives the report chain
FindingsStr(fs) == Join("\n\n", fs)

\* report_chain.arun(findings=s)
ReportChain(s) == [report |-> s]

(* ------------------------------- state --------------------------------- *)

VARIABLES
  run,            \* process_batch calls started on this agent so far
  pc,             \* where the coroutine is suspended
  pdf_urls,       \* the argument of the current call
  i,              \* the value range(0, n, 3) yields next / yielded last
  batch,          \* pdf_urls[i:i+3]
  k,              \* URLs of batch the inner for loop has taken
  url,            \* the inner loop variable, << >> outside an iteration
  response,       \* <<status>> once the GET has answered, else << >>
  document_text,  \* local of process_batch, << >> while unset
  llm_input,      \* the input of the chain call in flight
  batch_results,
  findings,
  memory,         \* self.memory: the agent's chat history
  result,         \* how the call ended
  exc,            \* the exception being handled, "" when none
  inflight,       \* external calls issued and not yet answered
  \* history of the current call, kept for the properties
  batches,        \* the batches formed, in order
  fetched,        \* input positions (1-based) a GET was issued for
  steps,          \* the steps of the current URL, in order
  diag,           \* input positions whose diagnostic was printed
  analyzed,       \* input positions whose analysis was appended
  agent_calls,    \* the find_connections calls made
  report_calls    \* the generate_report calls made

vars == <<run, pc, pdf_urls, i, batch, k, url, response, document_text,
          llm_input, batch_results, findings, memory, result, exc, inflight,
          batches, fetched, steps, diag, analyzed, agent_calls,
          report_calls>>

locals == <<url, response, document_text, llm_input>>
loopvars == <<i, batch, k>>
history == <<batches, fetched, steps, diag, analyzed, agent_calls,
             report_calls>>

NoResult == [kind |-> "none"]

\* __init__: a fresh ConversationBufferMemory, no call made yet
Init ==
  /\ run = 0
  /\ pc = "idle"
  /\ pdf_urls = << >>
  /\ i = 0
  /\ batch = << >>
  /\ k = 0
  /\ url = << >>
  /\ response = << >>
  /\ document_text = << >>
  /\ llm_input = << >>
  /\ batch_results = << >>
  /\ findings = << >>
  /\ memory = << >>
  /\ result = NoResult
  /\ exc = ""
  /\ inflight = {}
  /\ batches = << >>
  /\ fetched = << >>
  /\ steps = << >>
  /\ diag = << >>
  /\ analyzed = << >>
  /\ agent_calls = << >>
  /\ report_calls = << >>

(* ------------------------------ actions -------------------------------- *)

\* 1-based input position of the URL the inner loop holds
Pos == i + k

\* process_batch(us) is called on the agent, after construction or after an
\* earlier call ended: findings = [] and the outer loop is entered
ProcessBatch(us) ==
  /\ pc \in {"idle", "done"}
  /\ run < MaxRuns
  /\ run' = run + 1
  /\ pdf_urls' = us
  /\ findings' = << >>
  /\ i' = 0
  /\ batch' = << >>
  /\ k' = 0
  /\ batch_results' = << >>
  /\ url' = << >>
  /\ response' = << >>
  /\ document_text' = << >>
  /\ llm_input' = << >>
  /\ result' = NoResult
  /\ exc' = ""
  /\ batches' = << >>
  /\ fetched' = << >>
  /\ steps' = << >>
  /\ diag' = << >>
  /\ analyzed' = << >>
  /\ agent_calls' = << >>
  /\ report_calls' = << >>
  /\ pc' = "for_batch"
  /\ UNCHANGED <<memory, inflight>>

\* for i in range(0, len(pdf_urls), 3): batch = pdf_urls[i:i+3];
\* batch_results = []
NextBatch ==
  /\ pc = "for_batch"
  /\ i < Len(pdf_urls)
  /\ batch' = Slice(pdf_urls, i, i + BatchSize)
  /\ batch_results' = << >>
  /\ k' = 0
  /\ batches' = Append(batches, batch')
  /\ pc' = "for_url"
  /\ UNCHANGED <<run, pdf_urls, i, locals, findings, memory, result, exc,
                 inflight, fetched, steps, diag, analyzed, agent_calls,
                 report_calls>>

\* for url in batch: try: await self.fetch_pdf(url) -> session.get(url)
FetchPdf ==
  /\ pc = "for_url"
  /\ k < Len(batch)
  /\ k' = k + 1
  /\ url' = <<batch[k + 1]>>
  /\ inflight' = inflight \cup {"get"}
  /\ fetched' = Append(fetched, i + k + 1)
  /\ steps' = <<"fetch">>
  /\ pc' = "get"
  /\ UNCHANGED <<run, pdf_urls, i, batch, response, document_text, llm_input,
                 batch_results, findings, memory, result, exc, batches, diag,
                 analyzed, agent_calls, report_calls>>

\* a status test that lets every 2xx status through
GetResponse_2xx(s) ==
  /\ pc = "get"
  /\ response' = <<s>>
  /\ IF s \notin 200..299
       THEN /\ inflight' = inflight \ {"get"}
            /\ exc' = "FetchError"
            /\ pc' = "except"
       ELSE /\ inflight' = (inflight \ {"get"}) \cup {"read"}
            /\ exc' = exc
            /\ pc' = "read"
  /\ UNCHANGED <<run, pdf_urls, loopvars, url, document_text, llm_input,
                 batch_results, findings, memory, result, history>>

\* the GET answers with status s: raise unless it is 200, else
\* await response.read()
GetResponse(s) ==
  /\ pc = "get"
  /\ response' = <<s>>
  /\ IF s # HTTP_OK
       THEN /\ inflight' = inflight \ {"get"}
            /\ exc' = "FetchError"
            /\ pc' = "except"
       ELSE /\ inflight' = (inflight \ {"get"}) \cup {"read"}
            /\ exc' = exc
            /\ pc' = "read"
  /\ UNCHANGED <<run, pdf_urls, loopvars, url, document_text, llm_input,
                 batch_results, findings, memory, result, history>>

\* the GET itself fails (no response): aiohttp raises inside fetch_pdf
GetFails ==
  /\ pc = "get"
  /\ inflight' = inflight \ {"get"}
  /\ exc' = "ClientError"
  /\ pc' = "except"
  /\ UNCHANGED <<run, pdf_urls, loopvars, locals, batch_results, findings,
                 memory, result, history>>

\* the body arrives; PyPDF2 parses it or raises.  With the text in hand
\* analyze_document awaits document_chain.arun(document=document_text)
ReadBody(body) ==
  /\ pc = "read"
  /\ IF body = "pdf"
       THEN /\ document_text' = ExtractText(url[1])
            /\ llm_input' = document_text'
            /\ steps' = steps \o <<"extract", "document_chain">>
            /\ inflight' = (inflight \ {"read"}) \cup {"document_chain"}
            /\ exc' = exc
            /\ pc' = "document_chain"
       ELSE /\ inflight' = inflight \ {"read"}
            /\ exc' = "ExtractionError"
            /\ pc' = "except"
            /\ steps' = Append(steps, "extract")
            /\ UNCHANGED <<document_text, llm_input>>
  /\ UNCHANGED <<run, pdf_urls, loopvars, url, response, batch_results,
                 findings, memory, result, batches, fetched, diag, analyzed,
                 agent_calls, report_calls>>

\* an analysis chain that is given the document text instead of the
\* document chain's output
DocumentChainReturn_rawtext(ok) ==
  /\ pc = "document_chain"
  /\ IF ok
       THEN /\ llm_input' = document_text
            /\ steps' = Append(steps, "analysis_chain")
            /\ inflight' = (inflight \ {"document_chain"}) \cup {"analysis_chain"}
            /\ exc' = exc
            /\ pc' = "analysis_chain"
       ELSE /\ inflight' = inflight \ {"document_chain"}
            /\ exc' = "LLMError"
            /\ pc' = "except"
            /\ UNCHANGED <<llm_input, steps>>
  /\ UNCHANGED <<run, pdf_urls, loopvars, url, response, document_text,
                 batch_results, findings, memory, result, batches, fetched,
                 diag, analyzed, agent_calls, report_calls>>

\* analysis = await self.document_chain.arun(...) returns (ok) or raises;
\* on return analyze_document awaits analysis_chain.arun(analysis=analysis)
DocumentChainReturn(ok) ==
  /\ pc = "document_chain"
  /\ IF ok
       THEN /\ llm_input' = DocumentChain(llm_input)
            /\ steps' = Append(steps, "analysis_chain")
            /\ inflight' = (inflight \ {"document_chain"}) \cup {"analysis_chain"}
            /\ exc' = exc
            /\ pc' = "analysis_chain"
       ELSE /\ inflight' = inflight \ {"document_chain"}
            /\ exc' = "LLMError"
            /\ pc' = "except"
            /\ UNCHANGED <<llm_input, steps>>
  /\ UNCHANGED <<run, pdf_urls, loopvars, url, response, document_text,
                 batch_results, findings, memory, result, batches, fetched,
                 diag, analyzed, agent_calls, report_calls>>

\* the analysis put at the front of batch_results instead of appended
AnalysisChainReturn_prepend(ok) ==
  /\ pc = "analysis_chain"
  /\ inflight' = inflight \ {"analysis_chain"}
  /\ IF ok
       THEN /\ batch_results' = <<AnalysisChain(llm_input)>> \o batch_results
            /\ analyzed' = Append(analyzed, Pos)
            /\ url' = << >>
            /\ response' = << >>
            /\ document_text' = << >>
            /\ llm_input' = << >>
            /\ steps' = << >>
            /\ exc' = exc
            /\ pc' = "for_url"
       ELSE /\ exc' = "LLMError"
            /\ pc' = "except"
            /\ UNCHANGED <<batch_results, analyzed, locals, steps>>
  /\ UNCHANGED <<run, pdf_urls, loopvars, findings, memory, result,
                 batches, fetched, diag, agent_calls, report_calls>>

\* the analysis chain returns (ok): batch_results.append(analysis) and the
\* iteration ends; or it raises
AnalysisChainReturn(ok) ==
  /\ pc = "analysis_chain"
  /\ inflight' = inflight \ {"analysis_chain"}
  /\ IF ok
       THEN /\ batch_results' = Append(batch_results, AnalysisChain(llm_input))
            /\ analyzed' = Append(analyzed, Pos)
            /\ url' = << >>
            /\ response' = << >>
            /\ document_text' = << >>
            /\ llm_input' = << >>
            /\ steps' = << >>
            /\ exc' = exc
            /\ pc' = "for_url"
       ELSE /\ exc' = "LLMError"
            /\ pc' = "except"
            /\ UNCHANGED <<batch_results, analyzed, locals, steps>>
  /\ UNCHANGED <<run, pdf_urls, loopvars, findings, memory, result,
                 batches, fetched, diag, agent_calls, report_calls>>

\* a handler that retries the URL instead of moving on
Except_retry ==
  /\ pc = "except"
  /\ diag' = Append(diag, Pos)
  /\ exc' = ""
  /\ url' = << >>
  /\ response' = << >>
  /\ document_text' = << >>
  /\ llm_input' = << >>
  /\ steps' = << >>
  /\ k' = k - 1
  /\ pc' = "for_url"
  /\ UNCHANGED <<run, pdf_urls, i, batch, batch_results, findings, memory,
                 result, inflight, batches, fetched, analyzed, agent_calls,
                 report_calls>>

\* a handler that leaves the inner loop (break) instead of continuing
Except_break ==
  /\ pc = "except"
  /\ diag' = Append(diag, Pos)
  /\ exc' = ""
  /\ url' = << >>
  /\ response' = << >>
  /\ document_text' = << >>
  /\ llm_input' = << >>
  /\ steps' = << >>
  /\ k' = Len(batch)
  /\ pc' = "for_url"
  /\ UNCHANGED <<run, pdf_urls, i, batch, batch_results, findings, memory,
                 result, inflight, batches, fetched, analyzed, agent_calls,
                 report_calls>>

\* except Exception as e: print(...); continue.  The iteration ends and
\* its locals are dead
Except ==
  /\ pc = "except"
  /\ diag' = Append(diag, Pos)
  /\ exc' = ""
  /\ url' = << >>
  /\ response' = << >>
  /\ document_text' = << >>
  /\ llm_input' = << >>
  /\ steps' = << >>
  /\ pc' = "for_url"
  /\ UNCHANGED <<run, pdf_urls, loopvars, batch_results, findings, memory,
                 result, inflight, batches, fetched, analyzed, agent_calls,
                 report_calls>>

\* find_connections called without the `if batch_results:` test
FindConnections_unguarded ==
  /\ pc = "for_url"
  /\ k = Len(batch)
  /\ inflight' = inflight \cup {"agent"}
  /\ agent_calls' = Append(agent_calls,
                           [batch |-> Len(batches),
                            documents |-> batch_results,
                            prompt |-> ConnectionsPrompt(batch_results),
                            chat_history |-> memory,
                            fetched |-> Len(fetched)])
  /\ pc' = "agent"
  /\ UNCHANGED <<run, pdf_urls, loopvars, locals, batch_results, findings,
                 memory, result, exc, batches, fetched, steps, diag, analyzed,
                 report_calls>>

\* the batch is exhausted and batch_results is non-empty:
\* await self.find_connections(batch_results) -> self.agent.arun(prompt)
FindConnections ==
  /\ pc = "for_url"
  /\ k = Len(batch)
  /\ batch_results # << >>
  /\ inflight' = inflight \cup {"agent"}
  /\ agent_calls' = Append(agent_calls,
                           [batch |-> Len(batches),
                            documents |-> batch_results,
                            prompt |-> ConnectionsPrompt(batch_results),
                            chat_history |-> memory,
                            fetched |-> Len(fetched)])
  /\ pc' = "agent"
  /\ UNCHANGED <<run, pdf_urls, loopvars, locals, batch_results, findings,
                 memory, result, exc, batches, fetched, steps, diag, analyzed,
                 report_calls>>

\* an empty batch that still contributes an entry to findings
NoConnections_appends ==
  /\ pc = "for_url"
  /\ k = Len(batch)
  /\ batch_results = << >>
  /\ findings' = Append(findings,
                        [batch_results |-> batch_results, connections |-> << >>])
  /\ i' = i + BatchSize
  /\ pc' = "for_batch"
  /\ UNCHANGED <<run, pdf_urls, batch, k, locals, batch_results, memory,
                 result, exc, inflight, history>>

\* the batch is exhausted and batch_results is empty: on to the next batch
NoConnections ==
  /\ pc = "for_url"
  /\ k = Len(batch)
  /\ batch_results = << >>
  /\ i' = i + BatchSize
  /\ pc' = "for_batch"
  /\ UNCHANGED <<run, pdf_urls, batch, k, locals, batch_results, findings,
                 memory, result, exc, inflight, history>>

\* what the agent stores in its memory when a run of it returns: the
\* exchange, identified here by the call that produced it
Exchange == [run |-> run, batch |-> Len(batches)]

\* a find_connections failure that is swallowed: the loop goes on
AgentReturn_caught(ok) ==
  /\ pc = "agent"
  /\ inflight' = inflight \ {"agent"}
  /\ IF ok
       THEN /\ memory' = Append(memory, Exchange)
            /\ findings' = Append(findings,
                 [batch_results |-> batch_results,
                  connections |-> AgentReply(ConnectionsPrompt(batch_results))])
       ELSE UNCHANGED <<memory, findings>>
  /\ i' = i + BatchSize
  /\ pc' = "for_batch"
  /\ UNCHANGED <<run, pdf_urls, batch, k, locals, batch_results, result, exc,
                 history>>

\* the agent returns (ok): its memory gains the exchange and
\* findings.append({"batch_results": ..., "connections": ...}); or it
\* raises, which nothing in process_batch catches
AgentReturn(ok) ==
  /\ pc = "agent"
  /\ inflight' = inflight \ {"agent"}
  /\ IF ok
       THEN /\ memory' = Append(memory, Exchange)
            /\ findings' = Append(findings,
                 [batch_results |-> batch_results,
                  connections |-> AgentReply(ConnectionsPrompt(batch_results))])
            /\ i' = i + BatchSize
            /\ result' = result
            /\ pc' = "for_batch"
       ELSE /\ result' = [kind |-> "raised", from |-> "find_connections"]
            /\ pc' = "done"
            /\ UNCHANGED <<memory, findings, i>>
  /\ UNCHANGED <<run, pdf_urls, batch, k, locals, batch_results, exc,
                 history>>

\* after the last batch, findings non-empty:
\* return await self.generate_report(findings)
GenerateReport ==
  /\ pc = "for_batch"
  /\ i >= Len(pdf_urls)
  /\ findings # << >>
  /\ inflight' = inflight \cup {"report_chain"}
  /\ report_calls' = Append(report_calls,
                            [findings |-> findings,
                             input |-> FindingsStr(findings),
                             fetched |-> Len(fetched)])
  /\ pc' = "report_chain"
  /\ UNCHANGED <<run, pdf_urls, loopvars, locals, batch_results, findings,
                 memory, result, exc, batches, fetched, steps, diag, analyzed,
                 agent_calls>>

\* after the last batch, findings empty: return {"error": ...}
ReturnError ==
  /\ pc = "for_batch"
  /\ i >= Len(pdf_urls)
  /\ findings = << >>
  /\ result' = [kind |-> "returned", value |-> ErrorMarker]
  /\ pc' = "done"
  /\ UNCHANGED <<run, pdf_urls, loopvars, locals, batch_results, findings,
                 memory, exc, inflight, history>>

\* a report chain built with memory=self.memory: its run is recorded too
ReportChainReturn_memory(ok) ==
  /\ pc = "report_chain"
  /\ inflight' = inflight \ {"report_chain"}
  /\ result' = IF ok
                 THEN [kind |-> "returned",
                       value |-> ReportChain(FindingsStr(findings))]
                 ELSE [kind |-> "raised", from |-> "generate_report"]
  /\ memory' = IF ok THEN Append(memory, [run |-> run, batch |-> 0]) ELSE memory
  /\ pc' = "done"
  /\ UNCHANGED <<run, pdf_urls, loopvars, locals, batch_results, findings,
                 exc, history>>

\* the report chain returns (ok) and its value is returned, or it raises
ReportChainReturn(ok) ==
  /\ pc = "report_chain"
  /\ inflight' = inflight \ {"report_chain"}
  /\ result' = IF ok
                 THEN [kind |-> "returned",
                       value |-> ReportChain(FindingsStr(findings))]
                 ELSE [kind |-> "raised", from |-> "generate_report"]
  /\ pc' = "done"
  /\ UNCHANGED <<run, pdf_urls, loopvars, locals, batch_results, findings,
                 memory, exc, history>>

\* the steps of a call in progress
Step ==
  \/ NextBatch
  \/ FetchPdf
  \/ \E s \in Statuses : GetResponse(s)
  \/ GetFails
  \/ \E body \in Bodies : ReadBody(body)
  \/ \E ok \in BOOLEAN : DocumentChainReturn(ok)
  \/ \E ok \in BOOLEAN : AnalysisChainReturn(ok)
  \/ Except
  \/ FindConnections
  \/ NoConnections
  \/ \E ok \in BOOLEAN : AgentReturn(ok)
  \/ GenerateReport
  \/ ReturnError
  \/ \E ok \in BOOLEAN : ReportChainReturn(ok)

\* the caller calls process_batch, again and again, on one agent
Next ==
  \/ \E us \in UrlLists : ProcessBatch(us)
  \/ Step

\* one call of process_batch on a new agent
NextOneCall ==
  \/ \E us \in UrlLists : run = 0 /\ ProcessBatch(us)
  \/ Step

Spec == Init /\ [][Next]_vars

\* one call; every external call eventually returns or fails, and the event
\* loop then resumes the coroutine
SpecLive == Init /\ [][NextOneCall]_vars /\ WF_vars(NextOneCall)

(* ---------------------- vocabulary of the properties ------------------- *)

Range(s) == {s[x] : x \in 1..Len(s)}

RECURSIVE Concat(_)
Concat(ss) == IF ss = << >> THEN << >> ELSE Head(ss) \o Concat(Tail(ss))

CeilDiv(n, d) == (n + d - 1) \div d

\* the batch (1-based) input position p falls in
BatchOf(p) == ((p - 1) \div BatchSize) + 1

\* the call has ended
Done == pc = "done"

Returned == Done /\ result.kind = "returned"

RaisedFrom(f) == Done /\ result.kind = "raised" /\ result.from = f

\* the outer loop ran to its end (no find_connections failure cut it short)
LoopExhausted ==
  \/ pc = "for_batch" /\ i >= Len(pdf_urls)
  \/ pc = "report_chain"
  \/ Returned
  \/ RaisedFrom("generate_report")

\* the analysis result of the document at input position p
AnalysisOf(p) == AnalysisChain(DocumentChain(ExtractText(pdf_urls[p])))

\* input positions of batch b whose document succeeded, in input order
SucceededIn(b) == SelectSeq(analyzed, LAMBDA p : BatchOf(p) = b)

\* batches with at least one successful document
NonEmptyBatches == {BatchOf(p) : p \in Range(analyzed)}

(* -------------------------------- C1 ----------------------------------- *)

\* C1: the batches process_batch forms have between 1 and 3 URLs each, all
\* but the last formed have exactly 3, and their concatenation in processing
\* order is a prefix of pdf_urls; once the outer loop has run to its end
\* there are exactly ceil(n/3) of them and their concatenation is pdf_urls
\* itself (n = 0 and repeated URLs included).
C1_BatchesPartitionInput ==
  /\ \A b \in 1..Len(batches) : Len(batches[b]) \in 1..BatchSize
  /\ \A b \in 1..(Len(batches) - 1) : Len(batches[b]) = BatchSize
  /\ Len(Concat(batches)) <= Len(pdf_urls)
  /\ Concat(batches) = SubSeq(pdf_urls, 1, Len(Concat(batches)))
  /\ LoopExhausted =>
       /\ Len(batches) = CeilDiv(Len(pdf_urls), BatchSize)
       /\ Concat(batches) = pdf_urls

\* a list of 4 URLs with a repeated URL was split into a batch of 3 and a
\* batch of 1
C1_Witness ==
  /\ LoopExhausted
  /\ Len(pdf_urls) = BatchSize + 1
  /\ pdf_urls[1] = pdf_urls[2]
  /\ Len(batches) = 2
  /\ Len(batches[2]) = 1

(* -------------------------------- C2 ----------------------------------- *)

\* every URL of the input was attempted and skipped
AllFailed == Range(diag) = 1..Len(pdf_urls)

\* C2: when the call ends with every URL of every batch failed (the empty
\* list included), it returned the error marker as a value and neither
\* find_connections nor generate_report was called during the run.
C2_AllFailReturnsErrorMarker ==
  (Done /\ AllFailed) =>
    /\ result = [kind |-> "returned", value |-> ErrorMarker]
    /\ agent_calls = << >>
    /\ report_calls = << >>

\* a run over two batches in which all four URLs failed
C2_Witness ==
  /\ Done
  /\ Len(pdf_urls) = BatchSize + 1
  /\ AllFailed
  /\ Len(batches) = 2
  /\ result.kind = "returned"

(* -------------------------------- C3 ----------------------------------- *)

\* what holds of the one generate_report call of a run
ReportCalledOnce ==
  /\ Len(report_calls) = 1
  /\ report_calls[1].fetched = Len(pdf_urls)
  /\ Len(report_calls[1].findings) = Cardinality(NonEmptyBatches)

\* C3 as stated: when the call ends with at least one document succeeded,
\* generate_report was called exactly once, after the last batch, with as
\* many findings as there are batches with a success, and its return value
\* was returned.
C3_Original ==
  (Done /\ analyzed # << >>) =>
    /\ ReportCalledOnce
    /\ result.kind = "returned" =>
         result.value = ReportChain(report_calls[1].input)

\* C3 amended: generate_report is called at most once in a run.  When the
\* call ends with at least one document succeeded and no find_connections
\* call raised, generate_report was called exactly once, after every URL of
\* the input had been attempted, with as many findings as there are batches
\* with a success, and the value returned, if any, is the report chain's
\* return value on those findings; when find_connections raised,
\* generate_report was not called.
C3_ReportOnceUnlessAgentRaises ==
  /\ Len(report_calls) <= 1
  /\ (Done /\ analyzed # << >> /\ ~RaisedFrom("find_connections")) =>
       /\ ReportCalledOnce
       /\ report_calls[1].findings = findings
       /\ result.kind = "returned" =>
            result.value = ReportChain(Join("\n\n", findings))
       /\ result.kind = "raised" => result.from = "generate_report"
  /\ RaisedFrom("find_connections") => report_calls = << >>

\* two batches, only the second has a success, and the report was returned
C3_Witness ==
  /\ Returned
  /\ Len(batches) = 2
  /\ NonEmptyBatches = {2}
  /\ Len(report_calls) = 1
  /\ result.value = ReportChain(FindingsStr(findings))

(* -------------------------------- C4 ----------------------------------- *)

\* the parts of C4 that concern one URL: a per-URL failure is handled at the
\* per-URL boundary, adds nothing to batch_results and lets the inner loop
\* go on
SkipsOnlyThatUrl ==
  /\ exc # "" <=> pc = "except"
  /\ Range(diag) \cap Range(analyzed) = {}
  /\ Len(batch_results) = Len(SucceededIn(Len(batches)))
  /\ Done /\ result.kind = "raised" =>
       result.from \in {"find_connections", "generate_report"}
  /\ pc \in {"agent", "for_batch"} /\ batches # << >> =>
       Len(fetched) = Len(Concat(batches))

\* a step that raises inside the try block appends nothing, and the handler
\* resumes the inner loop at the next URL of the batch
SkipStep ==
  /\ pc' = "except" => batch_results' = batch_results /\ analyzed' = analyzed
  /\ pc = "except" =>
       /\ pc' = "for_url"
       /\ k' = k /\ batch' = batch /\ i' = i
       /\ batch_results' = batch_results
       /\ diag' = Append(diag, Pos)

\* C4 as stated: per-URL failures abort only that URL, and when the call
\* has ended after a URL failed, every URL of the input was attempted.
C4_Original ==
  /\ SkipsOnlyThatUrl
  /\ (Done /\ diag # << >>) => Len(fetched) = Len(pdf_urls)

\* C4 amended: a per-URL failure (fetch, parse, either chain) does not
\* propagate past the per-URL handler, appends nothing for that URL, and is
\* followed by the next URL of the batch, so every remaining URL of the
\* batch is attempted; every remaining URL of the input is attempted too
\* unless a find_connections call raises.
C4_FailureSkipsOnlyThatUrl ==
  /\ [](SkipsOnlyThatUrl)
  /\ [][SkipStep]_vars
  /\ []((Done /\ ~RaisedFrom("find_connections")) =>
          Len(fetched) = Len(pdf_urls))

\* the first URL failed, the second succeeded, and all four were attempted
C4_Witness ==
  /\ Done
  /\ Len(pdf_urls) = BatchSize + 1
  /\ 1 \in Range(diag)
  /\ 2 \in Range(analyzed)
  /\ Len(fetched) = Len(pdf_urls)

(* -------------------------------- C5 ----------------------------------- *)

\* the find_connections calls made for batch b
CallsFor(b) == {c \in 1..Len(agent_calls) : agent_calls[c].batch = b}

\* batch b has been left by the inner loop and the `if batch_results` test
BatchClosed(b) ==
  \/ b < Len(batches)
  \/ pc \in {"for_batch", "agent", "report_chain", "done"}

\* C5: find_connections is called exactly once for a batch with at least
\* one success and never for any other; the call is made when every URL of
\* the batch, and no URL of a later batch, has been fetched; its argument is
\* the analysis results of the batch's successful documents in input order
\* (sent as their blank-line join); findings gets one entry per call that
\* returned and none for a batch without a success.
C5_ConnectionsOncePerNonEmptyBatch ==
  /\ \A b \in 1..Len(batches) :
       /\ Cardinality(CallsFor(b)) <= 1
       /\ BatchClosed(b) => (CallsFor(b) # {} <=> b \in NonEmptyBatches)
       /\ ~BatchClosed(b) => CallsFor(b) = {}
  /\ \A c \in 1..Len(agent_calls) :
       LET call == agent_calls[c]
           ok   == SucceededIn(call.batch)
       IN  /\ call.batch \in 1..Len(batches)
           /\ call.fetched = Len(Concat(SubSeq(batches, 1, call.batch)))
           /\ call.documents = [x \in 1..Len(ok) |-> AnalysisOf(ok[x])]
           /\ Len(ok) = 2 =>
                call.prompt = <<"Analyze these documents and identify connections",
                                AnalysisOf(ok[1]), "\n\n", AnalysisOf(ok[2])>>
  /\ Len(findings) <= Len(agent_calls)
  /\ \A f \in 1..Len(findings) :
       /\ findings[f].batch_results = agent_calls[f].documents
       /\ findings[f].batch_results # << >>

\* first batch: URLs 1 and 3 succeeded, URL 2 failed, one call with two
\* documents; second batch: no success, no call
C5_Witness ==
  /\ Done
  /\ Len(batches) = 2
  /\ analyzed = <<1, 3>>
  /\ pdf_urls[1] # pdf_urls[3]
  /\ Len(agent_calls) = 1
  /\ Len(agent_calls[1].documents) = 2
  /\ Len(findings) = 1

(* -------------------------------- C6 ----------------------------------- *)

\* a find_connections call was made and did not return a value
AgentCallFailed == pc # "agent" /\ Len(findings) < Len(agent_calls)

\* C6: a find_connections failure ends the run with that exception: no URL
\* is fetched after the failing call, generate_report is not called, and
\* nothing is returned.  A generate_report failure ends the run with that
\* exception.  The error marker is returned only when no document succeeded.
C6_AgentOrReportFailureAborts ==
  /\ AgentCallFailed =>
       /\ RaisedFrom("find_connections")
       /\ Len(agent_calls) = Len(findings) + 1
       /\ Len(fetched) = agent_calls[Len(agent_calls)].fetched
       /\ report_calls = << >>
  /\ RaisedFrom("find_connections") => AgentCallFailed
  /\ (Done /\ report_calls # << >>) =>
       \/ RaisedFrom("generate_report")
       \/ Returned /\ result.value = ReportChain(report_calls[1].input)
  /\ RaisedFrom("generate_report") => Len(report_calls) = 1
  /\ (Returned /\ result.value = ErrorMarker) =>
       analyzed = << >> /\ agent_calls = << >>

\* find_connections raised for the first of two batches: the fourth URL was
\* never fetched
C6_Witness ==
  /\ RaisedFrom("find_connections")
  /\ Len(pdf_urls) = BatchSize + 1
  /\ Len(fetched) = BatchSize
  /\ report_calls = << >>

(* -------------------------------- C7 ----------------------------------- *)

Canon == <<"fetch", "extract", "document_chain", "analysis_chain">>

\* control is inside the iteration of one URL
InUrl == pc \in {"get", "read", "document_chain", "analysis_chain", "except"}

\* C8: at most one external call is in flight, and it is the one the
\* coroutine is suspended on; the steps of a document occur in the order
\* fetch, extract, document chain, analysis chain, the analysis chain being
\* given the document chain's output; URLs are fetched in input order and a
\* URL is fetched only when every earlier one has had its analysis appended
\* or has been skipped.
C8_StrictlySequential ==
  /\ Cardinality(inflight) <= 1
  /\ inflight = IF pc \in {"get", "read", "document_chain", "analysis_chain",
                           "agent", "report_chain"}
                  THEN {pc} ELSE {}
  /\ steps = SubSeq(Canon, 1, Len(steps))
  /\ InUrl <=> steps # << >>
  /\ pc \in {"get", "read"} => steps = <<"fetch">>
  /\ pc = "document_chain" =>
       /\ steps = SubSeq(Canon, 1, 3)
       /\ document_text = ExtractText(url[1])
       /\ llm_input = document_text
  /\ pc = "analysis_chain" =>
       /\ steps = Canon
       /\ llm_input = DocumentChain(document_text)
  /\ fetched = [x \in 1..Len(fetched) |-> x]
  /\ InUrl => url = <<pdf_urls[Pos]>> /\ fetched[Len(fetched)] = Pos
  /\ Len(fetched) = Len(diag) + Len(analyzed) + (IF InUrl THEN 1 ELSE 0)

\* the second URL is at its analysis chain call after the first completed
C8_Witness ==
  /\ pc = "analysis_chain"
  /\ fetched = <<1, 2>>
  /\ analyzed = <<1>>
  /\ inflight = {"analysis_chain"}

(* -------------------------------- C9 ----------------------------------- *)

NoRepeats(s) == Cardinality(Range(s)) = Len(s)

\* no retry, and one outcome
C9_Safety ==
  /\ NoRepeats(fetched) /\ NoRepeats(diag) /\ NoRepeats(analyzed)
  /\ NoRepeats(steps)
  /\ Range(fetched) \subseteq 1..Len(pdf_urls)
  /\ Range(analyzed) \cup Range(diag) \subseteq Range(fetched)
  /\ (Done /\ ~RaisedFrom("find_connections")) =>
       Range(fetched) = 1..Len(pdf_urls)
  /\ Done =>
       Cardinality({o \in {"report", "error", "exception"} :
          \/ o = "report" /\ Returned /\ result.value # ErrorMarker
          \/ o = "error" /\ Returned /\ result.value = ErrorMarker
          \/ o = "exception" /\ result.kind = "raised"}) = 1

\* C9: with every external call eventually answered, a started call of
\* process_batch ends, as a report, the error marker or an exception; every
\* input position is fetched at most once and analysed at most once, so at
\* most n fetches are made, and exactly n (one per occurrence, repeated URLs
\* included) unless a find_connections call raises.
C9_TerminatesWithoutRetry ==
  /\ [](C9_Safety)
  /\ (pc \notin {"idle", "done"}) ~> Done

\* a list holding one URL four times ended with four fetches
C9_Witness ==
  /\ Done
  /\ Len(pdf_urls) = BatchSize + 1
  /\ Cardinality(Range(pdf_urls)) = 1
  /\ fetched = <<1, 2, 3, 4>>

(* -------------------------------- C10 ---------------------------------- *)

\* the exchanges the current call / earlier calls of process_batch added
OfThisRun == SelectSeq(memory, LAMBDA e : e.run = run)
OfEarlierRuns == SelectSeq(memory, LAMBDA e : e.run < run)

\* memory changes only when a find_connections call returns, by one
\* exchange appended; a new call of process_batch starts from fresh locals
\* and the memory as it was left
MemoryStep ==
  /\ memory' # memory =>
       /\ pc = "agent" /\ pc' = "for_batch"
       /\ Len(memory') = Len(memory) + 1
       /\ SubSeq(memory', 1, Len(memory)) = memory
       /\ Len(findings') = Len(findings) + 1
  /\ (pc \in {"idle", "done"} /\ pc' = "for_batch") =>
       /\ memory' = memory
       /\ findings' = << >> /\ batch_results' = << >>

\* C10: memory only grows, by one exchange per find_connections call that
\* returns and by nothing else; the exchanges a run has added number the
\* find_connections calls of it that returned; each find_connections call
\* reads the exchanges of all earlier calls, those of earlier runs on the
\* same agent included.
C10_MemoryGrowsPerAgentReturn ==
  /\ [][MemoryStep]_vars
  /\ [](/\ memory = OfEarlierRuns \o OfThisRun
        /\ Len(OfThisRun) = Len(findings)
        /\ Done => Len(OfThisRun) =
             Len(agent_calls) - (IF RaisedFrom("find_connections") THEN 1 ELSE 0)
        /\ \A c \in 1..Len(agent_calls) :
             agent_calls[c].chat_history =
               SubSeq(memory, 1, Len(OfEarlierRuns) + c - 1))

\* the second call of a second run reads the two exchanges of the first run
\* and the one of this run
C10_Witness ==
  /\ run = 2
  /\ pc = "agent"
  /\ Len(agent_calls) = 2
  /\ Len(OfEarlierRuns) = 2
  /\ agent_calls[2].chat_history = memory
  /\ Len(memory) = 3

====
